---- MODULE Spec2Model ----
(***************************************************************************)
(* Rich-text command layer of the editor (packages/lexical-rich-text):     *)
(* the 24 command listeners registered by registerRichText, the Heading   *)
(* and Quote node mutations, the clipboard bridge and initializeEditor.    *)
(* The document tree, the selection and their primitives belong to the     *)
(* core `lexical` package; they are modelled here as far as the listeners  *)
(* use them.                                                               *)
(***************************************************************************)
EXTENDS Integers, Sequences, FiniteSets, TLC

VARIABLES nodes, selection, nextKey, activeElement, registered, overrides,
          clipboard, last, pre, steps

vars == <<nodes, selection, nextKey, activeElement, registered, overrides,
          clipboard, last, pre, steps>>

----------------------------------------------------------------------------
(* Bounds of the model *)

MaxNodes == 9      \* largest node key a run may allocate
MaxLen == 2        \* longest text a text node may hold
MaxSteps == 2      \* commands and node calls a run makes after registration

(* Program constants *)

IndentMax == 10    \* index.js:465
IndentMin == 0     \* index.js:494
Root == 1          \* key of the root node, $getRoot()

Keys == 1..(MaxNodes + 2)
TAB == "\t"
LF == "\n"
NULL == "null"

----------------------------------------------------------------------------
(* Node records of the document tree *)

ElementTypes == {"root", "paragraph", "heading", "quote", "code", "link"}

NoNode ==
  [type |-> "none", parent |-> 0, children |-> <<>>, indent |-> 0,
   dir |-> NULL, format |-> "", text |-> <<>>, tag |-> ""]

ElementRec(type, parent, children, indent, dir) ==
  [type |-> type, parent |-> parent, children |-> children, indent |-> indent,
   dir |-> dir, format |-> "", text |-> <<>>,
   tag |-> IF type = "heading" THEN "h1" ELSE ""]

TextRec(parent, text) ==
  [type |-> "text", parent |-> parent, children |-> <<>>, indent |-> 0,
   dir |-> NULL, format |-> "", text |-> text, tag |-> ""]

\* $createParagraphNode(): a detached paragraph under a fresh key
\* (nodes stays a function on Keys; a run never allocates past MaxNodes + 2)
CreateParagraphNode(s) ==
  [s EXCEPT !.nodes[s.nextKey] = ElementRec("paragraph", 0, <<>>, 0, NULL),
            !.nextKey = s.nextKey + 1]

IsElementNode(s, k) == s.nodes[k].type \in ElementTypes
IsHeadingNode(s, k) == s.nodes[k].type = "heading"
IsQuoteNode(s, k) == s.nodes[k].type = "quote"
CanInsertTab(s, k) == s.nodes[k].type = "code"
GetIndent(s, k) == s.nodes[k].indent
SetIndent(s, k, n) == [s EXCEPT !.nodes[k].indent = n]
GetDirection(s, k) == s.nodes[k].dir
SetDirection(s, k, d) == [s EXCEPT !.nodes[k].dir = d]
SetFormat(s, k, f) == [s EXCEPT !.nodes[k].format = f]
GetChildren(s, k) == s.nodes[k].children
GetParentOrThrow(s, k) == s.nodes[k].parent

IndexOf(seq, x) ==
  IF \E i \in 1..Len(seq) : seq[i] = x
    THEN CHOOSE i \in 1..Len(seq) : seq[i] = x
    ELSE 0

Without(seq, x) == SelectSeq(seq, LAMBDA y : y # x)

InsertAt(seq, i, x) == SubSeq(seq, 1, i) \o <<x>> \o SubSeq(seq, i + 1, Len(seq))

RemoveAt(seq, i) == SubSeq(seq, 1, i - 1) \o SubSeq(seq, i + 1, Len(seq))

RECURSIVE TextContent(_, _)
RECURSIVE TextContentOfAll(_, _)
\* node.getTextContent(): a text node's text, an element's children in order
TextContent(ns, k) ==
  IF ns[k].type = "text" THEN ns[k].text ELSE TextContentOfAll(ns, ns[k].children)
TextContentOfAll(ns, ks) ==
  IF ks = <<>> THEN <<>>
  ELSE TextContent(ns, Head(ks)) \o TextContentOfAll(ns, Tail(ks))

RECURSIVE TextsIn(_, _)
RECURSIVE TextsInAll(_, _)
\* the text nodes below k, in document order
TextsIn(ns, k) ==
  IF ns[k].type = "text" THEN <<k>> ELSE TextsInAll(ns, ns[k].children)
TextsInAll(ns, ks) ==
  IF ks = <<>> THEN <<>> ELSE TextsIn(ns, Head(ks)) \o TextsInAll(ns, Tail(ks))

RECURSIVE TopBlock(_, _)
\* the ancestor of k (or k itself) that is a child of the root
TopBlock(ns, k) ==
  IF k = Root \/ ns[k].parent = Root \/ ns[k].parent = 0 THEN k
  ELSE TopBlock(ns, ns[k].parent)

RECURSIVE Attached(_, _)
Attached(ns, k) ==
  \/ k = Root
  \/ /\ ns[k].type # "none"
     /\ ns[k].parent # 0
     /\ IndexOf(ns[ns[k].parent].children, k) # 0
     /\ Attached(ns, ns[k].parent)

----------------------------------------------------------------------------
(* Selection *)

Pt(k, o, t) == [key |-> k, offset |-> o, type |-> t]
NoPt == Pt(0, 0, "none")

RangeSel(a, f) == [kind |-> "range", anchor |-> a, focus |-> f, nodes |-> {}]
NodeSel(ks) == [kind |-> "node", anchor |-> NoPt, focus |-> NoPt, nodes |-> ks]
GridSel(ks) == [kind |-> "grid", anchor |-> NoPt, focus |-> NoPt, nodes |-> ks]
NoSel == [kind |-> "none", anchor |-> NoPt, focus |-> NoPt, nodes |-> {}]

IsRangeSelection(sel) == sel.kind = "range"
IsNodeSelection(sel) == sel.kind = "node"
IsGridSelection(sel) == sel.kind = "grid"
IsCollapsed(sel) == sel.anchor = sel.focus

Min(a, b) == IF a <= b THEN a ELSE b
Max(a, b) == IF a >= b THEN a ELSE b

RECURSIVE TextOfKeys(_, _)
TextOfKeys(ns, ks) ==
  IF ks = {} THEN <<>>
  ELSE LET k == CHOOSE x \in ks : \A y \in ks : x <= y
       IN TextContent(ns, k) \o TextOfKeys(ns, ks \ {k})

\* selection.getTextContent()
SelectionText(s) ==
  LET sel == s.sel IN
  CASE sel.kind = "range" ->
         IF sel.anchor.type = "text" /\ sel.anchor.key = sel.focus.key
           THEN SubSeq(s.nodes[sel.anchor.key].text,
                       Min(sel.anchor.offset, sel.focus.offset) + 1,
                       Max(sel.anchor.offset, sel.focus.offset))
           ELSE <<>>
    [] sel.kind \in {"node", "grid"} -> TextOfKeys(s.nodes, sel.nodes)
    [] OTHER -> <<>>

----------------------------------------------------------------------------
(* Editor state threaded through one dispatch:                             *)
(*   nodes, sel, nextKey  the document and the selection                   *)
(*   clip                 the event's clipboardData slots                  *)
(*   prevented            event.preventDefault() was called                *)
(*   active               document.activeElement                           *)
(*   ovr                  command names a consumer overrides at priority 1 *)
(*   log                  what happened, in order                          *)

Log(s, op, arg) == [s EXCEPT !.log = Append(@, [op |-> op, arg |-> arg])]

PreventDefault(s) == Log([s EXCEPT !.prevented = TRUE], "preventDefault", "")

SetSel(s, sel) == [s EXCEPT !.sel = sel]

Caret(k, o, t) == RangeSel(Pt(k, o, t), Pt(k, o, t))

----------------------------------------------------------------------------
(* Tree mutations of the core package *)

RemoveFromParent(s, k) ==
  IF s.nodes[k].parent = 0 THEN s
  ELSE [s EXCEPT !.nodes[s.nodes[k].parent].children = Without(@, k),
                 !.nodes[k].parent = 0]

\* parent.append(child)
AppendChild(s, p, c) ==
  [RemoveFromParent(s, c) EXCEPT !.nodes[p].children = Append(@, c),
                                 !.nodes[c].parent = p]

RECURSIVE AppendAll(_, _, _)
\* children.forEach((child) => parent.append(child))
AppendAll(s, p, cs) ==
  IF cs = <<>> THEN s ELSE AppendAll(AppendChild(s, p, Head(cs)), p, Tail(cs))

\* n, detached, becomes the sibling after k
PlaceAfter(s, k, n) ==
  [s EXCEPT !.nodes[s.nodes[k].parent].children = InsertAt(@, IndexOf(@, k), n),
            !.nodes[n].parent = s.nodes[k].parent]

\* node.insertAfter(n)
InsertAfter(s, k, n) == PlaceAfter(RemoveFromParent(s, n), k, n)

\* a selection point on a replaced node moves to the end of its replacement
MovePointToEnd(s, pt, from, to) ==
  IF pt.key = from THEN Pt(to, Len(s.nodes[to].children), "element") ELSE pt

\* n, detached, takes the place of k in k's parent; k leaves the tree
PlaceInsteadOf(s, k, n) ==
  [s EXCEPT !.nodes[s.nodes[k].parent].children =
               Without(InsertAt(@, IndexOf(@, k) - 1, n), k),
            !.nodes[n].parent = s.nodes[k].parent,
            !.nodes[k].parent = 0]

MoveSelectionOff(s, k, n) ==
  IF IsRangeSelection(s.sel)
    THEN [s EXCEPT !.sel.anchor = MovePointToEnd(s, @, k, n),
                   !.sel.focus = MovePointToEnd(s, @, k, n)]
    ELSE s

\* node.replace(n)
Replace(s, k, n) ==
  MoveSelectionOff(PlaceInsteadOf(RemoveFromParent(s, n), k, n), k, n)

\* paragraph.select(): a collapsed range at the paragraph's end
SelectNode(s, k) ==
  SetSel(s, Caret(k, Len(s.nodes[k].children), "element"))

----------------------------------------------------------------------------
(* QuoteNode and HeadingNode mutations.  Each returns the editor after the *)
(* call and the call's result.                                             *)

QuoteInsertNewAfterNoDirection(s, k) ==
  LET newBlock == s.nextKey
  IN [s |-> InsertAfter(CreateParagraphNode(s), k, newBlock), node |-> newBlock]

QuoteInsertNewAfter(s, k) ==
  LET newBlock == s.nextKey
      direction == GetDirection(s, k)
  IN [s |-> InsertAfter(SetDirection(CreateParagraphNode(s), newBlock, direction),
                        k, newBlock),
      node |-> newBlock]

QuoteCollapseAtStartDropsLast(s, k) ==
  LET paragraph == s.nextKey
      children == GetChildren(s, k)
  IN [s |-> Replace(AppendAll(CreateParagraphNode(s), paragraph,
                              SubSeq(children, 1, Len(children) - 1)),
                    k, paragraph),
      ret |-> TRUE]

QuoteCollapseAtStart(s, k) ==
  LET paragraph == s.nextKey
      children == GetChildren(s, k)
  IN [s |-> Replace(AppendAll(CreateParagraphNode(s), paragraph, children),
                    k, paragraph),
      ret |-> TRUE]

HeadingInsertNewAfter(s, k) ==
  LET newElement == s.nextKey
      direction == GetDirection(s, k)
  IN [s |-> InsertAfter(SetDirection(CreateParagraphNode(s), newElement, direction),
                        k, newElement),
      node |-> newElement]

HeadingCollapseAtStart(s, k) ==
  LET paragraph == s.nextKey
      children == GetChildren(s, k)
  IN [s |-> Replace(AppendAll(CreateParagraphNode(s), paragraph, children),
                    k, paragraph),
      ret |-> TRUE]

\* other blocks: a paragraph after the block, with the block's direction
ParagraphInsertNewAfter(s, k) ==
  [s |-> InsertAfter(SetDirection(CreateParagraphNode(s), s.nextKey,
                                  GetDirection(s, k)),
                     k, s.nextKey),
   node |-> s.nextKey]

\* element.insertNewAfter(), by node class
InsertNewAfter(s, k) ==
  CASE IsHeadingNode(s, k) -> HeadingInsertNewAfter(s, k)
    [] IsQuoteNode(s, k) -> QuoteInsertNewAfter(s, k)
    [] OTHER -> ParagraphInsertNewAfter(s, k)

\* element.collapseAtStart(), by node class; other elements decline
CollapseAtStart(s, k) ==
  CASE IsHeadingNode(s, k) -> HeadingCollapseAtStart(s, k)
    [] IsQuoteNode(s, k) -> QuoteCollapseAtStart(s, k)
    [] OTHER -> [s |-> s, ret |-> FALSE]

----------------------------------------------------------------------------
(* Selection primitives of the core package (RangeSelection methods).      *)
(* A range that is not collapsed lies within one text node.                *)

\* anchor.type === 'element' ? anchor.getNode() : anchor.getNode().getParentOrThrow()
ParentBlock(s, anchor) ==
  IF anchor.type = "element" THEN anchor.key ELSE GetParentOrThrow(s, anchor.key)

LastOf(seq) == seq[Len(seq)]

FirstTextAt(ns, ch, i) == Head(TextsIn(ns, ch[i]))
LastTextAt(ns, ch, i) == LastOf(TextsIn(ns, ch[i]))

\* the text position an element point (children ch, offset o) stands for
ResolveElement(ns, ch, o) ==
  IF o < Len(ch) /\ TextsIn(ns, ch[o + 1]) # <<>>
    THEN [key |-> FirstTextAt(ns, ch, o + 1), offset |-> 0]
  ELSE IF o > 0 /\ o <= Len(ch) /\ TextsIn(ns, ch[o]) # <<>>
    THEN [key |-> LastTextAt(ns, ch, o),
          offset |-> Len(ns[LastTextAt(ns, ch, o)].text)]
  ELSE [key |-> 0, offset |-> 0]

\* the text position a point stands for; key 0 when there is no text there
Resolve(ns, pt) ==
  IF pt.type = "text" THEN [key |-> pt.key, offset |-> pt.offset]
  ELSE ResolveElement(ns, ns[pt.key].children, pt.offset)

CutText(s, k, lo, hi) ==
  SetSel([s EXCEPT !.nodes[k].text = SubSeq(@, 1, lo) \o SubSeq(@, hi + 1, Len(@))],
         Caret(k, lo, "text"))

\* selection.removeText()
RemoveText(s) ==
  IF \/ IsCollapsed(s.sel)
     \/ s.sel.anchor.type # "text"
     \/ s.sel.anchor.key # s.sel.focus.key
    THEN s
    ELSE CutText(s, s.sel.anchor.key,
                 Min(s.sel.anchor.offset, s.sel.focus.offset),
                 Max(s.sel.anchor.offset, s.sel.focus.offset))

MovePointOff(pt, b, pb, n) == IF pt.key = b THEN Pt(pb, n, "element") ELSE pt

MoveSelectionTo(s, b, pb, n) ==
  [s EXCEPT !.sel.anchor = MovePointOff(@, b, pb, n),
            !.sel.focus = MovePointOff(@, b, pb, n)]

\* the block b joins the block pb before it: its children move, b leaves the tree
MergeBlocks(s, b, pb) ==
  MoveSelectionTo(RemoveFromParent(AppendAll(s, pb, s.nodes[b].children), b),
                  b, pb, Len(s.nodes[pb].children))

NonEmptyTexts(ns, ts) == SelectSeq(ts, LAMBDA t : Len(ns[t].text) > 0)

TextsBefore(ns, texts, k) ==
  IF k = 0 THEN <<>> ELSE NonEmptyTexts(ns, SubSeq(texts, 1, IndexOf(texts, k) - 1))

TextsAfter(ns, texts, k) ==
  IF k = 0 THEN <<>>
  ELSE NonEmptyTexts(ns, SubSeq(texts, IndexOf(texts, k) + 1, Len(texts)))

DropCharBefore(s, k, o) ==
  SetSel([s EXCEPT !.nodes[k].text = RemoveAt(@, o)], Caret(k, o - 1, "text"))

DropCharAfter(s, k, o) ==
  SetSel([s EXCEPT !.nodes[k].text = RemoveAt(@, o + 1)], Caret(k, o, "text"))

\* a backward deletion at the caret c of the block b, the i-th of blocks,
\* with the non-empty texts `prior` before the caret in b
DeleteBackwardAt(s, c, b, prior, blocks, i) ==
  CASE c.key # 0 /\ c.offset > 0 -> DropCharBefore(s, c.key, c.offset)
    [] c.offset = 0 /\ prior # <<>> ->
         DropCharBefore(s, LastOf(prior), Len(s.nodes[LastOf(prior)].text))
    [] c.offset = 0 /\ prior = <<>> /\ i > 1 -> MergeBlocks(s, b, blocks[i - 1])
    [] OTHER -> CollapseAtStart(s, ParentBlock(s, s.sel.anchor)).s

DeleteBackwardIn(s, c, b) ==
  DeleteBackwardAt(s, c, b, TextsBefore(s.nodes, TextsIn(s.nodes, b), c.key),
                   s.nodes[Root].children, IndexOf(s.nodes[Root].children, b))

DeleteBackward(s) ==
  DeleteBackwardIn(s, Resolve(s.nodes, s.sel.anchor),
                   TopBlock(s.nodes, s.sel.anchor.key))

DeleteForwardAt(s, c, b, after, blocks, i) ==
  CASE c.key # 0 /\ c.offset < Len(s.nodes[c.key].text) ->
         DropCharAfter(s, c.key, c.offset)
    [] c.key # 0 /\ after # <<>> -> [s EXCEPT !.nodes[Head(after)].text = Tail(@)]
    [] i > 0 /\ i < Len(blocks) -> MergeBlocks(s, blocks[i + 1], b)
    [] OTHER -> s

DeleteForwardIn(s, c, b) ==
  DeleteForwardAt(s, c, b, TextsAfter(s.nodes, TextsIn(s.nodes, b), c.key),
                  s.nodes[Root].children, IndexOf(s.nodes[Root].children, b))

DeleteForward(s) ==
  DeleteForwardIn(s, Resolve(s.nodes, s.sel.anchor),
                  TopBlock(s.nodes, s.sel.anchor.key))

\* selection.deleteCharacter(isBackward)
DeleteCharacter(s, isBackward) ==
  Log(IF ~IsCollapsed(s.sel) THEN RemoveText(s)
      ELSE IF isBackward THEN DeleteBackward(s)
      ELSE DeleteForward(s),
      "deleteCharacter", IF isBackward THEN "backward" ELSE "forward")

IsSpace(c) == c \in {TAB, LF}

\* where the run of word or space characters ending at offset o begins
WordStart(txt, o) ==
  IF o = 0 THEN 0
  ELSE CHOOSE j \in 0..(o - 1) :
         /\ \A i \in (j + 1)..o : IsSpace(txt[i]) = IsSpace(txt[o])
         /\ (j > 0 => IsSpace(txt[j]) # IsSpace(txt[o]))

\* where the run of word or space characters starting after offset o ends
WordEnd(txt, o) ==
  IF o = Len(txt) THEN o
  ELSE CHOOSE j \in (o + 1)..Len(txt) :
         /\ \A i \in (o + 1)..j : IsSpace(txt[i]) = IsSpace(txt[o + 1])
         /\ (j < Len(txt) => IsSpace(txt[j + 1]) # IsSpace(txt[o + 1]))

DeleteWordAt(s, c, isBackward) ==
  IF c.key = 0 THEN s
  ELSE IF isBackward
    THEN CutText(s, c.key, WordStart(s.nodes[c.key].text, c.offset), c.offset)
    ELSE CutText(s, c.key, c.offset, WordEnd(s.nodes[c.key].text, c.offset))

\* selection.deleteWord(isBackward): the run of word or space characters
\* next to the caret, within the caret's text node
DeleteWord(s, isBackward) ==
  Log(IF ~IsCollapsed(s.sel) THEN RemoveText(s)
      ELSE DeleteWordAt(s, Resolve(s.nodes, s.sel.anchor), isBackward),
      "deleteWord", IF isBackward THEN "backward" ELSE "forward")

DeleteLineAt(s, c, isBackward) ==
  IF c.key = 0 THEN s
  ELSE IF isBackward THEN CutText(s, c.key, 0, c.offset)
  ELSE CutText(s, c.key, c.offset, Len(s.nodes[c.key].text))

\* selection.deleteLine(isBackward): up to the boundary of the caret's text node
DeleteLine(s, isBackward) ==
  Log(IF ~IsCollapsed(s.sel) THEN RemoveText(s)
      ELSE DeleteLineAt(s, Resolve(s.nodes, s.sel.anchor), isBackward),
      "deleteLine", IF isBackward THEN "backward" ELSE "forward")

\* the text str goes in at the anchor a: into the text node of a text point;
\* an element point gets a new text node at its child index
InsertCharsAt(s, a, c, str) ==
  IF a.type = "text"
    THEN SetSel([s EXCEPT !.nodes[c.key].text =
                    SubSeq(@, 1, c.offset) \o str \o SubSeq(@, c.offset + 1, Len(@))],
                Caret(c.key, c.offset + Len(str), "text"))
  ELSE IF a.key = Root THEN s
  ELSE SetSel([s EXCEPT !.nodes[s.nextKey] = TextRec(a.key, str),
                        !.nodes[a.key].children =
                           InsertAt(@, Min(a.offset, Len(@)), s.nextKey),
                        !.nextKey = s.nextKey + 1],
              Caret(s.nextKey, Len(str), "text"))

InsertCharsIn(s, str) ==
  IF str = <<>> THEN s
  ELSE InsertCharsAt(s, s.sel.anchor, Resolve(s.nodes, s.sel.anchor), str)

InsertChars(s, str) == InsertCharsIn(RemoveText(s), str)

\* selection.insertText(text)
InsertText(s, str) == Log(InsertChars(s, str), "insertText", "")

SelectStart(s, selectStart) ==
  IF selectStart /\ s.sel.anchor.type = "text" /\ s.sel.anchor.offset > 0
    THEN SetSel(s, Caret(s.sel.anchor.key, s.sel.anchor.offset - 1, "text"))
    ELSE s

\* selection.insertLineBreak(selectStart)
InsertLineBreak(s, selectStart) ==
  Log(SelectStart(InsertChars(s, <<LF>>), selectStart), "insertLineBreak", "")

SplitText(s, k, o) ==
  [s EXCEPT !.nodes[s.nextKey] =
               TextRec(0, SubSeq(s.nodes[k].text, o + 1, Len(s.nodes[k].text))),
            !.nodes[k].text = SubSeq(@, 1, o),
            !.nextKey = s.nextKey + 1]

\* the block with children ch is split at the point a, the i-th child; what
\* follows the caret moves to the new block nb
SplitAt(s, nb, a, i, ch) ==
  IF a.type = "text" /\ i > 0
    THEN CASE a.offset = 0 ->
                SetSel(AppendAll(s, nb, SubSeq(ch, i, Len(ch))),
                       Caret(a.key, 0, "text"))
           [] a.offset > 0 /\ a.offset = Len(s.nodes[a.key].text) ->
                SetSel(AppendAll(s, nb, SubSeq(ch, i + 1, Len(ch))),
                       Caret(nb, 0, "element"))
           [] OTHER ->
                SetSel(AppendAll(SplitText(s, a.key, a.offset), nb,
                                 <<s.nextKey>> \o SubSeq(ch, i + 1, Len(ch))),
                       Caret(s.nextKey, 0, "text"))
    ELSE SetSel(s, Caret(nb, 0, "element"))

SplitBlock(r, a, b) ==
  SplitAt(r.s, r.node, a, IndexOf(r.s.nodes[b].children, a.key), r.s.nodes[b].children)

ParagraphIntoRoot(s) ==
  SetSel([CreateParagraphNode(s) EXCEPT
            !.nodes[Root].children =
               InsertAt(@, Min(s.sel.anchor.offset, Len(@)), s.nextKey),
            !.nodes[s.nextKey].parent = Root],
         Caret(s.nextKey, 0, "element"))

InsertParagraphIn(s, b) ==
  IF b = Root THEN ParagraphIntoRoot(s)
  ELSE SplitBlock(InsertNewAfter(s, b), s.sel.anchor, b)

InsertParagraphAt(s) == InsertParagraphIn(s, TopBlock(s.nodes, s.sel.anchor.key))

\* selection.insertParagraph(): the block is split at the caret through its
\* own insertNewAfter
InsertParagraph(s) == Log(InsertParagraphAt(RemoveText(s)), "insertParagraph", "")

\* selection.formatText(format): the selected text node's format is toggled
FormatText(s, format) ==
  Log(IF IsCollapsed(s.sel) \/ s.sel.anchor.type # "text" THEN s
      ELSE [s EXCEPT !.nodes[s.sel.anchor.key].format =
                        IF @ = format THEN "" ELSE format],
      "formatText", format)

MovedFocus(s, f, isBackward) ==
  IF f.type # "text" THEN f
  ELSE IF isBackward THEN Pt(f.key, Max(f.offset - 1, 0), "text")
  ELSE Pt(f.key, Min(f.offset + 1, Len(s.nodes[f.key].text)), "text")

\* $moveCharacter(selection, isHoldingShift, isBackward)
MoveCharacter(s, isHoldingShift, isBackward) ==
  Log(IF s.sel.focus.type # "text" THEN s
      ELSE IF isHoldingShift
        THEN IF s.sel.anchor.key = s.sel.focus.key
               THEN [s EXCEPT !.sel.focus = MovedFocus(s, @, isBackward)]
               ELSE s
      ELSE [s EXCEPT !.sel.focus = MovedFocus(s, @, isBackward),
                     !.sel.anchor = MovedFocus(s, s.sel.focus, isBackward)],
      "moveCharacter", IF isBackward THEN "backward" ELSE "forward")

\* $insertDataTransferForRichText(dataTransfer, selection, editor)
InsertDataTransferForRichText(s, data) ==
  Log(InsertChars(s, data), "insertDataTransfer", "")

----------------------------------------------------------------------------
(* Command payloads. One record shape serves every command:                *)
(*   b          the boolean payload (isBackward, selectStart)              *)
(*   str        the string payload of insertText                           *)
(*   isEvent    the payload is an event object                             *)
(*   shiftKey   event.shiftKey                                             *)
(*   hasData    event.clipboardData / event.dataTransfer is not null       *)
(*   data       event.data, or the text the transfer carries               *)
(*   arg        the format of formatText / formatElement, or the kind of   *)
(*              initial editor state                                       *)
(*   override   what $shouldOverrideDefaultCharacterSelection answers      *)
(*   htmlNull, lexicalNull   getHtmlContent / $getLexicalContent give null *)
(*   key        the node a node method is called on                        *)

NoPayload ==
  [b |-> FALSE, str |-> <<>>, isEvent |-> FALSE, shiftKey |-> FALSE,
   hasData |-> FALSE, data |-> <<>>, arg |-> "", override |-> FALSE,
   htmlNull |-> FALSE, lexicalNull |-> FALSE, key |-> 0]

BoolPayload(b) == [NoPayload EXCEPT !.b = b]
StringPayload(str) == [NoPayload EXCEPT !.str = str]
ArgPayload(a) == [NoPayload EXCEPT !.arg = a]
KeyEvent(shift) == [NoPayload EXCEPT !.isEvent = TRUE, !.shiftKey = shift]

Unset == [set |-> FALSE, val |-> <<>>]
EmptyClip == [plain |-> Unset, html |-> Unset, lexical |-> Unset]

\* clipboardData.setData(type, value)
SetData(s, slot, v) ==
  Log([s EXCEPT !.clip[slot] = [set |-> TRUE, val |-> v]], "setData", slot)

\* textContent[i], with JavaScript's 0-based index
CharAt(txt, i) == IF i >= 0 /\ i < Len(txt) THEN txt[i + 1] ELSE "undefined"

Declined(s) == [s |-> s, ret |-> FALSE]
Handled(s) == [s |-> s, ret |-> TRUE]

CoreCommands ==
  {"click", "deleteCharacter", "deleteWord", "deleteLine", "insertText",
   "removeText", "formatText", "formatElement", "insertLineBreak",
   "insertParagraph", "indentContent", "outdentContent", "keyArrowLeft",
   "keyArrowRight", "keyBackspace", "keyDelete", "keyEnter", "keyTab",
   "keyEscape", "drop", "dragstart", "copy", "cut", "paste"}

RECURSIVE execCommand(_, _, _)

----------------------------------------------------------------------------
(* Clipboard bridge *)


OnPasteForRichTextWithoutData(s, p) ==
  IF IsRangeSelection(s.sel)
    THEN InsertDataTransferForRichText(PreventDefault(s), p.data)
    ELSE PreventDefault(s)

OnPasteForRichText(s, p) ==
  IF p.hasData /\ IsRangeSelection(s.sel)
    THEN InsertDataTransferForRichText(PreventDefault(s), p.data)
    ELSE PreventDefault(s)

SetHtml(s, p) ==
  IF ~p.htmlNull THEN SetData(s, "html", SelectionText(s)) ELSE s

SetLexical(s, p) ==
  IF ~p.lexicalNull THEN SetData(s, "lexical", SelectionText(s)) ELSE s

SetPlain(s) == SetData(s, "plain", SelectionText(s))

WriteAllOrNothing(s, p) ==
  IF s.sel.kind # "none" /\ p.hasData /\ ~p.htmlNull /\ ~p.lexicalNull
    THEN SetPlain(SetLexical(SetHtml(s, p), p))
    ELSE s

OnCopyForRichTextAllOrNothing(s, p) == WriteAllOrNothing(PreventDefault(s), p)

WriteClipboard(s, p) ==
  IF s.sel.kind # "none"
    THEN IF p.hasData THEN SetPlain(SetLexical(SetHtml(s, p), p)) ELSE s
    ELSE s

OnCopyForRichText(s, p) == WriteClipboard(PreventDefault(s), p)

RemoveIfRange(s) ==
  IF IsRangeSelection(s.sel) THEN Log(RemoveText(s), "removeText", "") ELSE s

OnCutForRichTextDeleteFirst(s, p) == OnCopyForRichText(RemoveIfRange(s), p)

OnCutForRichText(s, p) == RemoveIfRange(OnCopyForRichText(s, p))

----------------------------------------------------------------------------
(* The command listeners of registerRichText *)

ClickHandler(s, p) ==
  IF IsNodeSelection(s.sel)
    THEN Handled(Log([s EXCEPT !.sel.nodes = {}], "clear", ""))
    ELSE Declined(s)


DeleteCharacterHandlerOutdents(s, p) ==
  IF ~IsRangeSelection(s.sel) THEN Declined(s)
  ELSE IF /\ p.b
          /\ IsCollapsed(s.sel)
          /\ s.sel.anchor.offset = 0
          /\ GetIndent(s, ParentBlock(s, s.sel.anchor)) > 0
    THEN execCommand(s, "outdentContent", NoPayload)
    ELSE Handled(DeleteCharacter(s, p.b))

DeleteCharacterHandler(s, p) ==
  IF ~IsRangeSelection(s.sel) THEN Declined(s)
  ELSE Handled(DeleteCharacter(s, p.b))

DeleteWordHandler(s, p) ==
  IF ~IsRangeSelection(s.sel) THEN Declined(s)
  ELSE Handled(DeleteWord(s, p.b))

DeleteLineHandler(s, p) ==
  IF ~IsRangeSelection(s.sel) THEN Declined(s)
  ELSE Handled(DeleteLine(s, p.b))

InsertTextHandler(s, p) ==
  IF ~IsRangeSelection(s.sel) THEN Declined(s)
  ELSE IF ~p.isEvent THEN Handled(InsertText(s, p.str))
  ELSE IF p.hasData THEN Handled(InsertDataTransferForRichText(s, p.data))
  ELSE IF p.data # <<>> THEN Handled(InsertText(s, p.data))
  ELSE Handled(s)

RemoveTextHandler(s, p) ==
  IF ~IsRangeSelection(s.sel) THEN Declined(s)
  ELSE Handled(Log(RemoveText(s), "removeText", ""))

FormatTextHandler(s, p) ==
  IF ~IsRangeSelection(s.sel) THEN Declined(s)
  ELSE Handled(FormatText(s, p.arg))

FormatElementHandler(s, p) ==
  IF ~IsRangeSelection(s.sel) THEN Declined(s)
  ELSE LET node == s.sel.anchor.key
           element == IF IsElementNode(s, node) THEN node
                      ELSE GetParentOrThrow(s, node)
       IN Handled(Log(SetFormat(s, element, p.arg), "setFormat", p.arg))

InsertLineBreakHandler(s, p) ==
  IF ~IsRangeSelection(s.sel) THEN Declined(s)
  ELSE Handled(InsertLineBreak(s, p.b))

InsertParagraphHandler(s, p) ==
  IF ~IsRangeSelection(s.sel) THEN Declined(s)
  ELSE Handled(InsertParagraph(s))


IndentContentHandlerAlwaysIndents(s, p) ==
  IF ~IsRangeSelection(s.sel) THEN Declined(s)
  ELSE LET parentBlock == ParentBlock(s, s.sel.anchor) IN
    IF GetIndent(s, parentBlock) # IndentMax
      THEN Handled(Log(SetIndent(s, parentBlock, GetIndent(s, parentBlock) + 1),
                       "setIndent", "+1"))
      ELSE Handled(s)

IndentContentHandlerUnclamped(s, p) ==
  IF ~IsRangeSelection(s.sel) THEN Declined(s)
  ELSE LET parentBlock == ParentBlock(s, s.sel.anchor) IN
    IF CanInsertTab(s, parentBlock)
      THEN Handled(execCommand(s, "insertText", StringPayload(<<TAB>>)).s)
      ELSE Handled(Log(SetIndent(s, parentBlock, GetIndent(s, parentBlock) + 1),
                       "setIndent", "+1"))

IndentContentHandler(s, p) ==
  IF ~IsRangeSelection(s.sel) THEN Declined(s)
  ELSE LET parentBlock == ParentBlock(s, s.sel.anchor) IN
    IF CanInsertTab(s, parentBlock)
      THEN Handled(execCommand(s, "insertText", StringPayload(<<TAB>>)).s)
      ELSE IF GetIndent(s, parentBlock) # IndentMax
        THEN Handled(Log(SetIndent(s, parentBlock, GetIndent(s, parentBlock) + 1),
                         "setIndent", "+1"))
        ELSE Handled(s)


OutdentContentHandlerDeletesForward(s, p) ==
  IF ~IsRangeSelection(s.sel) THEN Declined(s)
  ELSE LET anchor == s.sel.anchor
           parentBlock == ParentBlock(s, anchor)
           character == CharAt(TextContent(s.nodes, anchor.key), anchor.offset - 1)
       IN
    IF CanInsertTab(s, parentBlock)
      THEN IF character = TAB
             THEN Handled(execCommand(s, "deleteCharacter", BoolPayload(FALSE)).s)
             ELSE Handled(s)
      ELSE IF GetIndent(s, parentBlock) # IndentMin
        THEN Handled(Log(SetIndent(s, parentBlock, GetIndent(s, parentBlock) - 1),
                         "setIndent", "-1"))
        ELSE Handled(s)

OutdentContentHandler(s, p) ==
  IF ~IsRangeSelection(s.sel) THEN Declined(s)
  ELSE LET anchor == s.sel.anchor
           anchorNode == anchor.key
           parentBlock == ParentBlock(s, anchor)
           textContent == TextContent(s.nodes, anchorNode)
           character == CharAt(textContent, anchor.offset - 1)
       IN
    IF CanInsertTab(s, parentBlock)
      THEN IF character = TAB
             THEN Handled(execCommand(s, "deleteCharacter", BoolPayload(TRUE)).s)
             ELSE Handled(s)
      ELSE IF GetIndent(s, parentBlock) # IndentMin
        THEN Handled(Log(SetIndent(s, parentBlock, GetIndent(s, parentBlock) - 1),
                         "setIndent", "-1"))
        ELSE Handled(s)

KeyArrowLeftHandler(s, p) ==
  IF ~IsRangeSelection(s.sel) THEN Declined(s)
  ELSE IF p.override
    THEN Handled(MoveCharacter(PreventDefault(s), p.shiftKey, TRUE))
    ELSE Declined(s)

KeyArrowRightHandler(s, p) ==
  IF ~IsRangeSelection(s.sel) THEN Declined(s)
  ELSE IF p.override
    THEN Handled(MoveCharacter(PreventDefault(s), p.shiftKey, FALSE))
    ELSE Declined(s)

KeyBackspaceHandler(s, p) ==
  IF ~IsRangeSelection(s.sel) THEN Declined(s)
  ELSE LET s1 == PreventDefault(s)
           anchor == s1.sel.anchor
           element == ParentBlock(s1, anchor)
       IN
    IF IsCollapsed(s1.sel) /\ anchor.offset = 0 /\ GetIndent(s1, element) > 0
      THEN execCommand(s1, "outdentContent", NoPayload)
      ELSE execCommand(s1, "deleteCharacter", BoolPayload(TRUE))


KeyDeleteHandlerTwice(s, p) ==
  IF ~IsRangeSelection(s.sel) THEN Declined(s)
  ELSE execCommand(execCommand(PreventDefault(s), "deleteCharacter",
                               BoolPayload(FALSE)).s,
                   "deleteCharacter", BoolPayload(FALSE))

KeyDeleteHandler(s, p) ==
  IF ~IsRangeSelection(s.sel) THEN Declined(s)
  ELSE execCommand(PreventDefault(s), "deleteCharacter", BoolPayload(FALSE))

KeyEnterHandler(s, p) ==
  IF ~IsRangeSelection(s.sel) THEN Declined(s)
  ELSE LET s1 == PreventDefault(s) IN
    IF p.shiftKey
      THEN execCommand(s1, "insertLineBreak", NoPayload)
      ELSE execCommand(s1, "insertParagraph", NoPayload)


KeyTabHandlerDirect(s, p) ==
  IF ~IsRangeSelection(s.sel) THEN Declined(s)
  ELSE IF p.shiftKey THEN OutdentContentHandler(PreventDefault(s), NoPayload)
  ELSE IndentContentHandler(PreventDefault(s), NoPayload)

KeyTabHandlerSwapped(s, p) ==
  IF ~IsRangeSelection(s.sel) THEN Declined(s)
  ELSE execCommand(PreventDefault(s),
                   IF p.shiftKey THEN "indentContent" ELSE "outdentContent",
                   NoPayload)

KeyTabHandler(s, p) ==
  IF ~IsRangeSelection(s.sel) THEN Declined(s)
  ELSE execCommand(PreventDefault(s),
                   IF p.shiftKey THEN "outdentContent" ELSE "indentContent",
                   NoPayload)

KeyEscapeHandlerUngated(s, p) ==
  Handled(Log([s EXCEPT !.active = IF @ = "editor" THEN "body" ELSE @], "blur", ""))

KeyEscapeHandler(s, p) ==
  IF ~IsRangeSelection(s.sel) THEN Declined(s)
  ELSE Handled(Log([s EXCEPT !.active = IF @ = "editor" THEN "body" ELSE @],
                   "blur", ""))

DropHandler(s, p) ==
  IF ~IsRangeSelection(s.sel) THEN Declined(s)
  ELSE Handled(PreventDefault(s))

DragstartHandler(s, p) ==
  IF ~IsRangeSelection(s.sel) THEN Declined(s)
  ELSE Handled(PreventDefault(s))


CopyHandlerAnySelection(s, p) == Handled(OnCopyForRichText(s, p))

CopyHandler(s, p) ==
  IF IsRangeSelection(s.sel) \/ IsGridSelection(s.sel)
    THEN Handled(OnCopyForRichText(s, p))
    ELSE Declined(s)

CutHandler(s, p) ==
  IF IsRangeSelection(s.sel) \/ IsGridSelection(s.sel)
    THEN Handled(OnCutForRichText(s, p))
    ELSE Declined(s)

PasteHandler(s, p) ==
  IF IsRangeSelection(s.sel) \/ IsGridSelection(s.sel)
    THEN Handled(OnPasteForRichText(s, p))
    ELSE Declined(s)

\* the listener registerRichText registers for a command name, at priority 0
CoreHandler(s, name, p) ==
  CASE name = "click" -> ClickHandler(s, p)
    [] name = "deleteCharacter" -> DeleteCharacterHandler(s, p)
    [] name = "deleteWord" -> DeleteWordHandler(s, p)
    [] name = "deleteLine" -> DeleteLineHandler(s, p)
    [] name = "insertText" -> InsertTextHandler(s, p)
    [] name = "removeText" -> RemoveTextHandler(s, p)
    [] name = "formatText" -> FormatTextHandler(s, p)
    [] name = "formatElement" -> FormatElementHandler(s, p)
    [] name = "insertLineBreak" -> InsertLineBreakHandler(s, p)
    [] name = "insertParagraph" -> InsertParagraphHandler(s, p)
    [] name = "indentContent" -> IndentContentHandler(s, p)
    [] name = "outdentContent" -> OutdentContentHandler(s, p)
    [] name = "keyArrowLeft" -> KeyArrowLeftHandler(s, p)
    [] name = "keyArrowRight" -> KeyArrowRightHandler(s, p)
    [] name = "keyBackspace" -> KeyBackspaceHandler(s, p)
    [] name = "keyDelete" -> KeyDeleteHandler(s, p)
    [] name = "keyEnter" -> KeyEnterHandler(s, p)
    [] name = "keyTab" -> KeyTabHandler(s, p)
    [] name = "keyEscape" -> KeyEscapeHandler(s, p)
    [] name = "drop" -> DropHandler(s, p)
    [] name = "dragstart" -> DragstartHandler(s, p)
    [] name = "copy" -> CopyHandler(s, p)
    [] name = "cut" -> CutHandler(s, p)
    [] name = "paste" -> PasteHandler(s, p)
    [] OTHER -> Declined(s)

Returned(r, name) == [s |-> Log(r.s, "return", name), ret |-> r.ret]

Overridden(s, name) ==
  [s |-> Log(Log(s, "override", name), "return", name), ret |-> TRUE]

\* editor.execCommand(name, payload): a consumer's priority-1 listener that
\* returns true runs first and stops the chain; then the core listener
execCommand(s, name, p) ==
  IF name \in s.ovr
    THEN Overridden(Log(s, "exec", name), name)
    ELSE Returned(CoreHandler(Log(s, "exec", name), name, p), name)

----------------------------------------------------------------------------
(* Initialization *)

\* the editor state a string parses to, or the state object handed over
InstalledNodes ==
  [k \in Keys |->
     CASE k = Root -> ElementRec("root", 0, <<2>>, 0, NULL)
       [] k = 2 -> ElementRec("paragraph", Root, <<3>>, 0, "ltr")
       [] k = 3 -> TextRec(2, <<"a">>)
       [] OTHER -> NoNode]

\* editor.setEditorState(state, options)
SetEditorState(s) ==
  [s EXCEPT !.nodes = InstalledNodes, !.sel = NoSel, !.nextKey = Max(s.nextKey, 4)]

\* the callback form: the caller's function fills the document; here it
\* puts one quote block into an empty root
RunInitialCallback(s) ==
  IF GetChildren(s, Root) # <<>> THEN s
  ELSE AppendChild([s EXCEPT !.nodes[s.nextKey] = ElementRec("quote", 0, <<>>, 0, NULL),
                             !.nextKey = s.nextKey + 1],
                   Root, s.nextKey)

AppendDefaultParagraph(s) ==
  Log(AppendChild(CreateParagraphNode(s), Root, s.nextKey), "createParagraphNode", "")

SelectIfFocusedOnly(s, paragraph) ==
  IF s.active = "editor" THEN SelectNode(s, paragraph) ELSE s

\* $getSelection() !== null ||
\* (activeElement !== null && activeElement === editor.getRootElement())
SelectIfFocused(s, paragraph) ==
  IF s.sel.kind # "none" \/ s.active = "editor" THEN SelectNode(s, paragraph) ELSE s


InitializeEditorAlwaysAppends(s, initialEditorState) ==
  IF initialEditorState = "null" THEN s
  ELSE IF initialEditorState = "undefined"
    THEN SelectIfFocused(AppendDefaultParagraph(s), s.nextKey)
  ELSE CASE initialEditorState = "string" -> SetEditorState(s)
         [] initialEditorState = "object" -> SetEditorState(s)
         [] initialEditorState = "function" -> RunInitialCallback(s)
         [] OTHER -> s

InitializeEditor(s, initialEditorState) ==
  IF initialEditorState = "null" THEN s
  ELSE IF initialEditorState = "undefined"
    THEN IF GetChildren(s, Root) = <<>>
           THEN SelectIfFocused(AppendDefaultParagraph(s), s.nextKey)
           ELSE s
  ELSE CASE initialEditorState = "string" -> SetEditorState(s)
         [] initialEditorState = "object" -> SetEditorState(s)
         [] initialEditorState = "function" -> RunInitialCallback(s)
         [] OTHER -> s

InitialEditorStates == {"null", "undefined", "string", "object", "function"}

\* the command names in the order registerRichText registers their listeners
CoreCommandList ==
  <<"click", "deleteCharacter", "deleteWord", "deleteLine", "insertText",
    "removeText", "formatText", "formatElement", "insertLineBreak",
    "insertParagraph", "indentContent", "outdentContent", "keyArrowLeft",
    "keyArrowRight", "keyBackspace", "keyDelete", "keyEnter", "keyTab",
    "keyEscape", "drop", "dragstart", "copy", "cut", "paste">>

RECURSIVE RegisterListeners(_, _)
\* editor.registerCommandListener(name, listener, 0) for each name in turn
RegisterListeners(s, names) ==
  IF names = <<>> THEN s
  ELSE RegisterListeners(Log(s, "registerCommandListener", Head(names)), Tail(names))

\* the body of registerRichText: the listeners, then initializeEditor
RegisterRichText(s, initialEditorState) ==
  InitializeEditor(Log(RegisterListeners(s, CoreCommandList),
                       "initializeEditor", initialEditorState),
                   initialEditorState)

----------------------------------------------------------------------------
(* Initial documents: an empty root, or two blocks                         *)
(*   root(1) > [ block(2) > [ text(3), link(4) > [ text(5) ] ],            *)
(*               block(6) > [ text(7) ]  or an empty block(6) ]            *)
(* with the children of block(2) in the order given by `order`             *)

Config(k1, i1, d1, k2, i2, d2) ==
  [k1 |-> k1, i1 |-> i1, d1 |-> d1, k2 |-> k2, i2 |-> i2, d2 |-> d2,
   order |-> <<3, 4>>]

Configs ==
  { Config("paragraph", 9, "ltr", "quote", 1, "rtl"),
    Config("heading", 1, "rtl", "paragraph", 0, NULL),
    Config("quote", 0, NULL, "heading", 10, "ltr"),
    Config("code", 1, NULL, "quote", 0, "ltr"),
    Config("code", 0, "ltr", "heading", 0, NULL),
    [Config("paragraph", 2, NULL, "heading", 0, NULL) EXCEPT !.order = <<4, 3>>] }

EmptyNodes ==
  [k \in Keys |-> IF k = Root THEN ElementRec("root", 0, <<>>, 0, NULL) ELSE NoNode]

ConfigNodes(c) ==
  [k \in Keys |->
     CASE k = Root -> ElementRec("root", 0, <<2, 6>>, 0, NULL)
       [] k = 2 -> ElementRec(c.k1, Root, c.order, c.i1, c.d1)
       [] k = 3 -> TextRec(2, <<"a">>)
       [] k = 4 -> ElementRec("link", 2, <<5>>, 0, NULL)
       [] k = 5 -> TextRec(4, <<"a">>)
       [] k = 6 -> ElementRec(c.k2, Root,
                              IF c.k2 = "paragraph" THEN <<7>> ELSE <<>>, c.i2, c.d2)
       [] k = 7 -> IF c.k2 = "paragraph" THEN TextRec(6, <<"a">>) ELSE NoNode
       [] OTHER -> NoNode]

ConfigSelections(c) ==
  { Caret(3, 0, "text"), Caret(3, 1, "text"), Caret(5, 0, "text"),
    Caret(2, 0, "element"), Caret(2, 1, "element"),
    IF c.k2 = "paragraph" THEN Caret(7, 0, "text") ELSE Caret(6, 0, "element"),
    RangeSel(Pt(3, 0, "text"), Pt(3, 1, "text")),
    NodeSel({4}), GridSel({3}), NoSel }

EmptySelections == { NoSel, Caret(Root, 0, "element"), NodeSel({}) }

NoLast ==
  [cmd |-> "", payload |-> NoPayload, ret |-> FALSE, prevented |-> FALSE,
   log |-> <<>>, node |-> 0]

Snapshot == [nodes |-> nodes, sel |-> selection, active |-> activeElement,
             nextKey |-> nextKey]

Init ==
  /\ \/ /\ nodes = EmptyNodes
        /\ selection \in EmptySelections
        /\ activeElement \in {NULL, "editor", "body"}
        /\ nextKey = 2
     \/ \E c \in Configs :
          /\ nodes = ConfigNodes(c)
          /\ selection \in ConfigSelections(c)
          /\ activeElement = "editor"
          /\ nextKey = 8
  /\ registered = FALSE
  /\ overrides = {}
  /\ clipboard = EmptyClip
  /\ last = NoLast
  /\ pre = Snapshot
  /\ steps = 0

----------------------------------------------------------------------------
(* Actions *)

Start ==
  [nodes |-> nodes, sel |-> selection, nextKey |-> nextKey, clip |-> EmptyClip,
   prevented |-> FALSE, active |-> activeElement, ovr |-> overrides, log |-> <<>>]

WithinBounds(s) ==
  /\ s.nextKey <= MaxNodes + 1
  /\ \A k \in Keys : Len(s.nodes[k].text) <= MaxLen

Commit(s, l) ==
  /\ WithinBounds(s)
  /\ nodes' = s.nodes
  /\ selection' = s.sel
  /\ nextKey' = s.nextKey
  /\ activeElement' = s.active
  /\ clipboard' = s.clip
  /\ last' = l
  /\ pre' = Snapshot
  /\ UNCHANGED overrides


CommitRegistered(s, init) ==
  Commit(s, [NoLast EXCEPT !.cmd = "registerRichText", !.payload = ArgPayload(init),
                           !.log = s.log])

\* registerRichText(editor, initialEditorState): the listeners, then initializeEditor
registerRichText ==
  \E init \in InitialEditorStates :
    /\ ~registered
    /\ registered' = TRUE
    /\ UNCHANGED steps
    /\ CommitRegistered(RegisterRichText(Start, init), init)

\* a command or node call after registration, at most MaxSteps of them
Step ==
  /\ registered
  /\ steps < MaxSteps
  /\ steps' = steps + 1
  /\ UNCHANGED registered

CommitResult(r, name, p) ==
  Commit(r.s, [cmd |-> name, payload |-> p, ret |-> r.ret,
               prevented |-> r.s.prevented, log |-> r.s.log, node |-> 0])

\* one top-level editor.execCommand(name, payload)
Dispatch(name, p) == CommitResult(execCommand(Start, name, p), name, p)

Chars == {"a"}
KeyEvents == {KeyEvent(FALSE), KeyEvent(TRUE)}
ArrowEvents ==
  {KeyEvent(FALSE)} \cup {[KeyEvent(sh) EXCEPT !.override = TRUE] : sh \in BOOLEAN}
ClipboardEvents ==
  {KeyEvent(FALSE)} \cup
  {[KeyEvent(FALSE) EXCEPT !.hasData = TRUE, !.htmlNull = h, !.lexicalNull = l] :
     h \in BOOLEAN, l \in BOOLEAN}
PasteEvents ==
  {[KeyEvent(FALSE) EXCEPT !.hasData = d, !.data = IF d THEN <<"a">> ELSE <<>>] :
     d \in BOOLEAN}
InputEvents ==
  {[KeyEvent(FALSE) EXCEPT !.data = x] : x \in {<<>>, <<"a">>}} \cup
  {[KeyEvent(FALSE) EXCEPT !.hasData = TRUE, !.data = <<"a">>]}

click ==
  /\ Step
  /\ Dispatch("click", NoPayload)

deleteCharacter ==
  /\ Step
  /\ \E b \in BOOLEAN : Dispatch("deleteCharacter", BoolPayload(b))

deleteWord ==
  /\ Step
  /\ \E b \in BOOLEAN : Dispatch("deleteWord", BoolPayload(b))

deleteLine ==
  /\ Step
  /\ \E b \in BOOLEAN : Dispatch("deleteLine", BoolPayload(b))

insertText ==
  /\ Step
  /\ \/ \E c \in Chars : Dispatch("insertText", StringPayload(<<c>>))
     \/ \E e \in InputEvents : Dispatch("insertText", e)

removeText ==
  /\ Step
  /\ Dispatch("removeText", NoPayload)

formatText ==
  /\ Step
  /\ Dispatch("formatText", ArgPayload("bold"))

formatElement ==
  /\ Step
  /\ Dispatch("formatElement", ArgPayload("center"))

insertLineBreak ==
  /\ Step
  /\ \E b \in BOOLEAN : Dispatch("insertLineBreak", BoolPayload(b))

insertParagraph ==
  /\ Step
  /\ Dispatch("insertParagraph", NoPayload)

indentContent ==
  /\ Step
  /\ Dispatch("indentContent", NoPayload)

outdentContent ==
  /\ Step
  /\ Dispatch("outdentContent", NoPayload)

keyArrowLeft ==
  /\ Step
  /\ \E e \in ArrowEvents : Dispatch("keyArrowLeft", e)

keyArrowRight ==
  /\ Step
  /\ \E e \in ArrowEvents : Dispatch("keyArrowRight", e)

keyBackspace ==
  /\ Step
  /\ Dispatch("keyBackspace", KeyEvent(FALSE))

keyDelete ==
  /\ Step
  /\ Dispatch("keyDelete", KeyEvent(FALSE))

keyEnter ==
  /\ Step
  /\ \E e \in KeyEvents : Dispatch("keyEnter", e)

keyTab ==
  /\ Step
  /\ \E e \in KeyEvents : Dispatch("keyTab", e)

keyEscape ==
  /\ Step
  /\ Dispatch("keyEscape", KeyEvent(FALSE))

drop ==
  /\ Step
  /\ Dispatch("drop", KeyEvent(FALSE))

dragstart ==
  /\ Step
  /\ Dispatch("dragstart", KeyEvent(FALSE))

copy ==
  /\ Step
  /\ \E e \in ClipboardEvents : Dispatch("copy", e)

cut ==
  /\ Step
  /\ \E e \in ClipboardEvents : Dispatch("cut", e)

paste ==
  /\ Step
  /\ \E e \in PasteEvents : Dispatch("paste", e)

CommitCollapse(r, k) ==
  Commit(r.s, [NoLast EXCEPT !.cmd = "collapseAtStart", !.payload.key = k,
                             !.ret = r.ret])

\* node.collapseAtStart() called on a heading or quote of the tree
collapseAtStart ==
  \E k \in Keys :
    /\ Step
    /\ k # Root
    /\ nodes[k].type \in {"heading", "quote"}
    /\ Attached(nodes, k)
    /\ CommitCollapse(CollapseAtStart(Start, k), k)

CommitInsert(r, k) ==
  Commit(r.s, [NoLast EXCEPT !.cmd = "insertNewAfter", !.payload.key = k,
                             !.node = r.node])

\* node.insertNewAfter() called on a heading or quote of the tree
insertNewAfter ==
  \E k \in Keys :
    /\ Step
    /\ k # Root
    /\ nodes[k].type \in {"heading", "quote"}
    /\ Attached(nodes, k)
    /\ CommitInsert(InsertNewAfter(Start, k), k)

Next ==
  \/ registerRichText
  \/ click \/ deleteCharacter \/ deleteWord \/ deleteLine \/ insertText
  \/ removeText \/ formatText \/ formatElement \/ insertLineBreak
  \/ insertParagraph \/ indentContent \/ outdentContent
  \/ keyArrowLeft \/ keyArrowRight \/ keyBackspace \/ keyDelete
  \/ keyEnter \/ keyTab \/ keyEscape \/ drop \/ dragstart
  \/ copy \/ cut \/ paste
  \/ collapseAtStart \/ insertNewAfter

Spec == Init /\ [][Next]_vars

\* the command names a consumer registers a listener for, at a priority above
\* 0, with a listener that returns true
OverrideSets ==
  { {"indentContent"}, {"outdentContent"}, {"deleteCharacter"},
    {"insertLineBreak", "insertParagraph"} }

\* editor.registerCommandListener(name, () => true, 1) by a consumer, once the
\* core listeners stand and before the first command
registerCommandListener ==
  \E names \in OverrideSets :
    /\ registered
    /\ steps = 0
    /\ overrides = {}
    /\ steps' = steps + 1
    /\ overrides' = names
    /\ last' = [NoLast EXCEPT !.cmd = "registerCommandListener"]
    /\ pre' = Snapshot
    /\ UNCHANGED <<nodes, selection, nextKey, activeElement, registered, clipboard>>

NextOv == Next \/ registerCommandListener

\* the editor with a consumer's listeners next to the core ones
SpecOv == Init /\ [][NextOv]_vars

----------------------------------------------------------------------------
(* Properties.  `pre` is the editor before the last operation, `last` the  *)
(* operation with its payload, return value and log.                       *)

PreState ==
  [nodes |-> pre.nodes, sel |-> pre.sel, nextKey |-> pre.nextKey,
   clip |-> EmptyClip, prevented |-> FALSE, active |-> pre.active,
   ovr |-> overrides, log |-> <<>>]

Count(op, arg) ==
  Cardinality({i \in 1..Len(last.log) : last.log[i] = [op |-> op, arg |-> arg]})

CountOp(op) == Cardinality({i \in 1..Len(last.log) : last.log[i].op = op})

FirstIndex(op, arg) == IndexOf(last.log, [op |-> op, arg |-> arg])

TextUnchanged == \A k \in Keys : nodes[k].text = pre.nodes[k].text

\* a collapsed caret at offset 0 of the block b: on b itself, or in the text
\* node that is b's first child
AtStartOfBlock(ns, sel, b) ==
  /\ IsRangeSelection(sel)
  /\ IsCollapsed(sel)
  /\ sel.anchor.offset = 0
  /\ ns[b].type \in {"paragraph", "heading", "quote", "code"}
  /\ ns[b].parent = Root
  /\ \/ sel.anchor.type = "element" /\ sel.anchor.key = b
     \/ /\ sel.anchor.type = "text"
        /\ ns[b].children # <<>>
        /\ Head(ns[b].children) = sel.anchor.key

\* C1: keyBackspace with a collapsed caret at offset 0 of a block of any kind:
\* with indent > 0 the block's indent drops by exactly 1 and no character goes;
\* with indent = 0 there is exactly one backward character deletion and the
\* indent stays 0.
C1_BackspaceAtBlockStart ==
  \A b \in Keys :
    (last.cmd = "keyBackspace" /\ AtStartOfBlock(pre.nodes, pre.sel, b)) =>
      IF pre.nodes[b].indent > 0
        THEN /\ nodes[b].indent = pre.nodes[b].indent - 1
             /\ TextUnchanged
             /\ CountOp("deleteCharacter") = 0
        ELSE /\ Count("deleteCharacter", "backward") = 1
             /\ CountOp("deleteCharacter") = 1
             /\ nodes[b].indent = 0

RangeGated ==
  {"deleteCharacter", "deleteWord", "deleteLine", "insertText", "removeText",
   "formatText", "formatElement", "insertLineBreak", "insertParagraph",
   "indentContent", "outdentContent", "keyArrowLeft", "keyArrowRight",
   "keyBackspace", "keyDelete", "keyEnter", "keyTab", "keyEscape", "drop",
   "dragstart"}

\* C2: a Range-gated core command dispatched under a NodeSet selection or no
\* selection returns false, changes neither the tree nor the selection nor the
\* focus, dispatches nothing nested and does not call preventDefault.
C2_NonRangeDeclined ==
  (last.cmd \in RangeGated /\ pre.sel.kind \in {"node", "none"}) =>
    /\ last.ret = FALSE
    /\ nodes = pre.nodes
    /\ selection = pre.sel
    /\ activeElement = pre.active
    /\ nextKey = pre.nextKey
    /\ last.prevented = FALSE
    /\ last.log = <<[op |-> "exec", arg |-> last.cmd],
                    [op |-> "return", arg |-> last.cmd]>>

C2_Witness ==
  /\ last.cmd = "keyEscape"
  /\ pre.sel.kind = "node"
  /\ last.ret = FALSE
  /\ activeElement = "editor"

\* C3: every node's indent stays within [0,10]; indentContent on a block at
\* indent 10 leaves it at 10, outdentContent on a block at indent 0 leaves it at 0.
C3_IndentWithinBounds ==
  /\ \A k \in Keys : nodes[k].indent \in IndentMin..IndentMax
  /\ \A b \in Keys :
       (/\ last.cmd \in {"indentContent", "outdentContent"}
        /\ IsRangeSelection(pre.sel)
        /\ b = ParentBlock(PreState, pre.sel.anchor)) =>
         /\ (last.cmd = "indentContent" /\ pre.nodes[b].indent = IndentMax)
              => nodes[b].indent = IndentMax
         /\ (last.cmd = "outdentContent" /\ pre.nodes[b].indent = IndentMin)
              => nodes[b].indent = IndentMin

C3_Witness ==
  /\ last.cmd = "indentContent"
  /\ last.ret
  /\ IsRangeSelection(pre.sel)
  /\ LET b == ParentBlock(PreState, pre.sel.anchor)
     IN /\ ~CanInsertTab(PreState, b)
        /\ pre.nodes[b].indent = IndentMax
        /\ nodes[b].indent = IndentMax

\* C4: keyTab gives the document, selection and return value that a direct
\* outdentContent (shift held) or indentContent (no shift) gives from the
\* same state.
C4_TabIsIndentOrOutdent ==
  last.cmd = "keyTab" =>
    LET direct == execCommand(PreState,
                              IF last.payload.shiftKey THEN "outdentContent"
                              ELSE "indentContent",
                              NoPayload)
    IN /\ nodes = direct.s.nodes
       /\ selection = direct.s.sel
       /\ nextKey = direct.s.nextKey
       /\ last.ret = direct.ret

C4_Witness ==
  /\ last.cmd = "keyTab"
  /\ last.payload.shiftKey
  /\ last.ret
  /\ \E b \in Keys : nodes[b].indent = pre.nodes[b].indent - 1

\* C5: collapseAtStart on a Heading or Quote with N children returns true; a
\* new Paragraph stands at the node's place in its parent and holds the N
\* children in their order; the Heading or Quote is out of the tree.
C5_CollapseAtStart ==
  last.cmd = "collapseAtStart" =>
    LET k == last.payload.key
        p == pre.nodes[k].parent
        i == IndexOf(pre.nodes[p].children, k)
    IN /\ last.ret = TRUE
       /\ \E n \in Keys :
            /\ pre.nodes[n].type = "none"
            /\ nodes[n].type = "paragraph"
            /\ nodes[n].parent = p
            /\ nodes[p].children = [pre.nodes[p].children EXCEPT ![i] = n]
            /\ nodes[n].children = pre.nodes[k].children
            /\ \A c \in Keys :
                 (IndexOf(pre.nodes[k].children, c) # 0) =>
                    /\ nodes[c].parent = n
                    /\ nodes[c].children = pre.nodes[c].children
                    /\ nodes[c].text = pre.nodes[c].text
       /\ ~Attached(nodes, k)
       /\ nodes[k].children = <<>>
       /\ \A j \in Keys : Attached(nodes, j) => IndexOf(nodes[j].children, k) = 0

C5_Witness ==
  /\ last.cmd = "collapseAtStart"
  /\ Len(pre.nodes[last.payload.key].children) = 2
  /\ pre.nodes[last.payload.key].type = "heading"
  /\ last.ret

\* C6: insertNewAfter on a Heading or Quote adds one node, a Paragraph right
\* after the source node with the source node's direction, returns it, and
\* changes nothing else of the tree.
C6_InsertNewAfter ==
  last.cmd = "insertNewAfter" =>
    LET k == last.payload.key
        n == last.node
        p == pre.nodes[k].parent
        i == IndexOf(pre.nodes[p].children, k)
    IN /\ n \in Keys
       /\ pre.nodes[n].type = "none"
       /\ nodes[n] = ElementRec("paragraph", p, <<>>, 0, pre.nodes[k].dir)
       /\ nodes[p] = [pre.nodes[p] EXCEPT !.children = InsertAt(@, i, n)]
       /\ nodes[p].children[i] = k
       /\ nodes[p].children[i + 1] = n
       /\ \A j \in Keys \ {n, p} : nodes[j] = pre.nodes[j]

C6_Witness ==
  /\ last.cmd = "insertNewAfter"
  /\ pre.nodes[last.payload.key].type = "quote"
  /\ pre.nodes[last.payload.key].dir = "rtl"
  /\ nodes[last.node].dir = "rtl"

\* C7: registerRichText without an initial state on an empty root leaves the
\* root with exactly one child, a Paragraph; the selection is a collapsed range
\* in it at offset 0 if the editor had focus or a selection existed, and stays
\* None otherwise.
C7_DefaultParagraph ==
  (/\ last.cmd = "registerRichText"
   /\ last.payload.arg = "undefined"
   /\ pre.nodes[Root].children = <<>>) =>
    /\ Len(nodes[Root].children) = 1
    /\ LET n == nodes[Root].children[1]
       IN /\ nodes[n].type = "paragraph"
          /\ nodes[n].parent = Root
          /\ nodes[n].children = <<>>
          /\ IF pre.active = "editor" \/ pre.sel.kind # "none"
               THEN selection = Caret(n, 0, "element")
               ELSE selection = NoSel

C7_Witness ==
  /\ last.cmd = "registerRichText"
  /\ last.payload.arg = "undefined"
  /\ pre.nodes[Root].children = <<>>
  /\ pre.active # "editor"
  /\ pre.sel.kind = "node"
  /\ IsRangeSelection(selection)
  /\ IsCollapsed(selection)

RECURSIVE QuoteOf(_, _)
\* the Quote the node k is, or lies inside; 0 if there is none
QuoteOf(ns, k) ==
  IF k = 0 THEN 0
  ELSE IF ns[k].type = "quote" THEN k
  ELSE QuoteOf(ns, ns[k].parent)

\* C8: formatElement "center" with the anchor anywhere inside a Quote sets that
\* Quote's format to "center", changes no other node's format and returns true.
C8_FormatElementInQuote ==
  (/\ last.cmd = "formatElement"
   /\ last.payload.arg = "center"
   /\ IsRangeSelection(pre.sel)
   /\ QuoteOf(pre.nodes, pre.sel.anchor.key) # 0) =>
    LET q == QuoteOf(pre.nodes, pre.sel.anchor.key)
    IN /\ last.ret = TRUE
       /\ nodes[q].format = "center"
       /\ \A k \in Keys \ {q} : nodes[k].format = pre.nodes[k].format

CutOfRange ==
  LET a == pre.sel.anchor
      f == pre.sel.focus
      lo == Min(a.offset, f.offset)
      hi == Max(a.offset, f.offset)
      txt == pre.nodes[a.key].text
  IN /\ clipboard.plain = [set |-> TRUE, val |-> SelectionText(PreState)]
     /\ IF IsCollapsed(pre.sel) THEN nodes = pre.nodes
        ELSE /\ clipboard.plain.val = SubSeq(txt, lo + 1, hi)
             /\ Len(clipboard.plain.val) > 0
             /\ nodes[a.key].text = SubSeq(txt, 1, lo) \o SubSeq(txt, hi + 1, Len(txt))
             /\ \A k \in Keys \ {a.key} : nodes[k] = pre.nodes[k]
     /\ FirstIndex("setData", "plain") # 0
     /\ FirstIndex("setData", "plain") < FirstIndex("removeText", "")
     /\ Count("removeText", "") = 1

\* C9 as stated: on a cut with a clipboard payload, a Range selection has its
\* text copied to text/plain before its content is removed; any selection that
\* is not a Range has the clipboard written and nothing deleted.
C9_CutAsStated ==
  (last.cmd = "cut" /\ last.payload.hasData) =>
    IF IsRangeSelection(pre.sel) THEN CutOfRange
    ELSE /\ clipboard.plain.set
         /\ nodes = pre.nodes

\* C9 amended: as stated for a Range; a Grid selection has the clipboard written
\* and nothing deleted; under a NodeSet selection or none the cut is declined,
\* nothing is written and nothing is deleted.
C9_CutCopiesThenDeletes ==
  (last.cmd = "cut" /\ last.payload.hasData) =>
    CASE IsRangeSelection(pre.sel) -> CutOfRange /\ last.ret
      [] IsGridSelection(pre.sel) ->
           /\ last.ret
           /\ clipboard.plain = [set |-> TRUE, val |-> SelectionText(PreState)]
           /\ nodes = pre.nodes
           /\ CountOp("removeText") = 0
      [] OTHER ->
           /\ ~last.ret
           /\ clipboard = EmptyClip
           /\ nodes = pre.nodes

C9_Witness ==
  /\ last.cmd = "cut"
  /\ last.payload.hasData
  /\ IsRangeSelection(pre.sel)
  /\ ~IsCollapsed(pre.sel)
  /\ clipboard.plain.val = <<"a">>
  /\ nodes[pre.sel.anchor.key].text = <<>>

\* C10: copy without a selection returns false, writes no clipboard slot and
\* leaves the document unchanged; when copy writes, text/plain is written and
\* a null html or structured string leaves just its own slot unset.
C10_CopyDegrades ==
  last.cmd = "copy" =>
    /\ pre.sel.kind = "none" =>
         /\ last.ret = FALSE
         /\ clipboard = EmptyClip
         /\ nodes = pre.nodes
         /\ selection = pre.sel
    /\ nodes = pre.nodes
    /\ (last.ret /\ last.payload.hasData) =>
         /\ clipboard.plain = [set |-> TRUE, val |-> SelectionText(PreState)]
         /\ clipboard.html.set = ~last.payload.htmlNull
         /\ clipboard.lexical.set = ~last.payload.lexicalNull
    /\ ~(last.ret /\ last.payload.hasData) => clipboard = EmptyClip

C10_Witness ==
  /\ last.cmd = "copy"
  /\ last.ret
  /\ last.payload.htmlNull
  /\ ~last.payload.lexicalNull
  /\ clipboard.plain.set
  /\ ~clipboard.html.set
  /\ clipboard.lexical.set

\* C11 as stated: every paste dispatch, whatever the selection, suppresses the
\* event's default handling; the transferred data is inserted exactly when the
\* selection is a Range and the event carries clipboard data; in every other
\* case the document is unchanged.
C11_PasteAsStated ==
  last.cmd = "paste" =>
    /\ last.prevented
    /\ CountOp("insertDataTransfer") =
         (IF IsRangeSelection(pre.sel) /\ last.payload.hasData THEN 1 ELSE 0)
    /\ ~(IsRangeSelection(pre.sel) /\ last.payload.hasData) => nodes = pre.nodes

\* C11 amended: a paste under a Range or Grid selection suppresses the event's
\* default handling and is reported handled; under a NodeSet selection or none
\* it is declined and the default handling is not suppressed; the transferred
\* data is inserted exactly when the selection is a Range and the event carries
\* clipboard data; in every other case the document and selection are unchanged.
C11_PasteSuppressesAndInserts ==
  last.cmd = "paste" =>
    /\ last.prevented = (pre.sel.kind \in {"range", "grid"})
    /\ last.ret = (pre.sel.kind \in {"range", "grid"})
    /\ Count("preventDefault", "") = (IF last.prevented THEN 1 ELSE 0)
    /\ CountOp("insertDataTransfer") =
         (IF IsRangeSelection(pre.sel) /\ last.payload.hasData THEN 1 ELSE 0)
    /\ CountOp("insertDataTransfer") = 1 =>
         FirstIndex("preventDefault", "") < FirstIndex("insertDataTransfer", "")
    /\ ~(IsRangeSelection(pre.sel) /\ last.payload.hasData) =>
         /\ nodes = pre.nodes
         /\ selection = pre.sel
         /\ nextKey = pre.nextKey

C11_Witness ==
  /\ last.cmd = "paste"
  /\ IsRangeSelection(pre.sel)
  /\ last.payload.hasData
  /\ last.prevented
  /\ CountOp("insertDataTransfer") = 1
  /\ nodes # pre.nodes

\* the command a key listener re-dispatches from the state before it
RedispatchOf(cmd, p) ==
  CASE cmd = "keyTab" -> IF p.shiftKey THEN "outdentContent" ELSE "indentContent"
    [] cmd = "keyEnter" -> IF p.shiftKey THEN "insertLineBreak" ELSE "insertParagraph"
    [] cmd = "keyDelete" -> "deleteCharacter"
    [] cmd = "keyBackspace" ->
         IF /\ IsCollapsed(pre.sel)
            /\ pre.sel.anchor.offset = 0
            /\ GetIndent(PreState, ParentBlock(PreState, pre.sel.anchor)) > 0
           THEN "outdentContent" ELSE "deleteCharacter"
    [] OTHER -> ""

\* C12: a command whose name a consumer overrides at a higher priority with a
\* listener returning true never reaches the core listener of that name: the
\* dispatch returns true and the document and selection are untouched, both
\* for a top-level dispatch and for the command keyTab, keyBackspace, keyDelete
\* or keyEnter re-dispatches.
C12_OverrideWins ==
  /\ last.cmd \in overrides =>
       /\ last.ret = TRUE
       /\ nodes = pre.nodes
       /\ selection = pre.sel
       /\ nextKey = pre.nextKey
       /\ ~last.prevented
       /\ last.log = <<[op |-> "exec", arg |-> last.cmd],
                       [op |-> "override", arg |-> last.cmd],
                       [op |-> "return", arg |-> last.cmd]>>
  /\ \A i \in 1..Len(last.log) :
       (last.log[i].op = "exec" /\ last.log[i].arg \in overrides) =>
          /\ i + 2 <= Len(last.log)
          /\ last.log[i + 1] = [op |-> "override", arg |-> last.log[i].arg]
          /\ last.log[i + 2] = [op |-> "return", arg |-> last.log[i].arg]
  /\ (/\ last.cmd \in {"keyTab", "keyBackspace", "keyDelete", "keyEnter"}
      /\ IsRangeSelection(pre.sel)
      /\ RedispatchOf(last.cmd, last.payload) \in overrides) =>
       /\ last.ret = TRUE
       /\ nodes = pre.nodes
       /\ selection = pre.sel
       /\ nextKey = pre.nextKey
       /\ last.log = <<[op |-> "exec", arg |-> last.cmd],
                       [op |-> "preventDefault", arg |-> ""],
                       [op |-> "exec", arg |-> RedispatchOf(last.cmd, last.payload)],
                       [op |-> "override", arg |-> RedispatchOf(last.cmd, last.payload)],
                       [op |-> "return", arg |-> RedispatchOf(last.cmd, last.payload)],
                       [op |-> "return", arg |-> last.cmd]>>

C12_Witness ==
  /\ last.cmd = "keyBackspace"
  /\ overrides = {"outdentContent"}
  /\ IsRangeSelection(pre.sel)
  /\ Count("override", "outdentContent") = 1
  /\ \E b \in Keys : pre.nodes[b].indent > 0 /\ AtStartOfBlock(pre.nodes, pre.sel, b)
  /\ nodes = pre.nodes

\* the direction a deleteCharacter payload asks for
DirectionOf(p) == IF p.b THEN "backward" ELSE "forward"

ContentBefore(ns, sel, b) ==
  LET c == Resolve(ns, sel.anchor)
  IN /\ c.key # 0
     /\ \/ c.offset > 0
        \/ TextsBefore(ns, TextsIn(ns, b), c.key) # <<>>

\* C14: keyBackspace in a block of indent > 0 whose content stands before the
\* caret, or under a selection that is not collapsed, makes one backward
\* character deletion, dispatches no outdentContent and leaves the block's
\* indent as it was.
C14_OutdentOnlyAtBlockStart ==
  (last.cmd = "keyBackspace" /\ IsRangeSelection(pre.sel)) =>
    LET b == TopBlock(pre.nodes, pre.sel.anchor.key)
    IN (/\ pre.nodes[b].indent > 0
        /\ \/ ~IsCollapsed(pre.sel)
           \/ ContentBefore(pre.nodes, pre.sel, b)) =>
         /\ Count("deleteCharacter", "backward") = 1
         /\ Count("exec", "outdentContent") = 0
         /\ nodes[b].indent = pre.nodes[b].indent

\* the character that stands right before the anchor, as outdentContent reads it
CharBeforeAnchor(ns, sel) ==
  CharAt(TextContent(ns, sel.anchor.key), sel.anchor.offset - 1)

\* outdentContent took exactly the character before the caret
TabBeforeCaretDeleted ==
  /\ Count("deleteCharacter", "backward") = 1
  /\ CountOp("setIndent") = 0
  /\ \A k \in Keys : nodes[k].indent = pre.nodes[k].indent
  /\ (IsCollapsed(pre.sel) /\ pre.sel.anchor.type = "text") =>
       /\ nodes[pre.sel.anchor.key].text =
            RemoveAt(pre.nodes[pre.sel.anchor.key].text, pre.sel.anchor.offset)
       /\ \A k \in Keys \ {pre.sel.anchor.key} : nodes[k].text = pre.nodes[k].text

\* C15: outdentContent under a Range selection deletes exactly the tab before
\* the caret and keeps the indent when the anchor block accepts tabs and a tab
\* stands there; in every other case it lowers the block's indent by 1, not
\* below 0, and deletes nothing.
C15_OutdentTabOrIndent ==
  (last.cmd = "outdentContent" /\ IsRangeSelection(pre.sel)) =>
    LET b == ParentBlock(PreState, pre.sel.anchor)
    IN IF CanInsertTab(PreState, b) /\ CharBeforeAnchor(pre.nodes, pre.sel) = TAB
         THEN TabBeforeCaretDeleted
         ELSE /\ nodes[b].indent = Max(pre.nodes[b].indent - 1, IndentMin)
              /\ TextUnchanged
              /\ CountOp("deleteCharacter") = 0

\* the number of tab characters in a text
TabsIn(txt) == Cardinality({i \in 1..Len(txt) : txt[i] = TAB})

\* the number of tab characters in the document
NumTabs(ns) == TabsIn(TextContent(ns, Root))

\* one tab went in at the selection of the state before, in place of what was
\* selected
TabInsertedAtSelection ==
  /\ Count("exec", "insertText") = 1
  /\ Count("insertText", "") = 1
  /\ CountOp("setIndent") = 0
  /\ \A k \in Keys : nodes[k].indent = pre.nodes[k].indent
  /\ NumTabs(nodes) = NumTabs(pre.nodes) - TabsIn(SelectionText(PreState)) + 1
  /\ pre.sel.anchor.type = "text" =>
       LET k == pre.sel.anchor.key
           lo == Min(pre.sel.anchor.offset, pre.sel.focus.offset)
           hi == Max(pre.sel.anchor.offset, pre.sel.focus.offset)
           txt == pre.nodes[k].text
       IN /\ nodes[k].text = SubSeq(txt, 1, lo) \o <<TAB>> \o SubSeq(txt, hi + 1, Len(txt))
          /\ \A j \in Keys \ {k} : nodes[j] = pre.nodes[j]
  /\ pre.sel.anchor.type = "element" =>
       Len(TextContent(nodes, Root)) = Len(TextContent(pre.nodes, Root)) + 1

RedispatchGraph ==
  { <<"keyBackspace", "outdentContent">>, <<"keyBackspace", "deleteCharacter">>,
    <<"keyDelete", "deleteCharacter">>,
    <<"keyEnter", "insertLineBreak">>, <<"keyEnter", "insertParagraph">>,
    <<"keyTab", "indentContent">>, <<"keyTab", "outdentContent">>,
    <<"indentContent", "insertText">>, <<"outdentContent", "deleteCharacter">> }

RECURSIVE ReachableFrom(_, _)
\* the commands reachable from the set S in at most n re-dispatches
ReachableFrom(S, n) ==
  IF n = 0 THEN S
  ELSE S \cup ReachableFrom({e[2] : e \in {g \in RedispatchGraph : g[1] \in S}}, n - 1)

Acyclic ==
  \A c \in CoreCommands :
    c \notin ReachableFrom({e[2] : e \in {g \in RedispatchGraph : g[1] = c}},
                           Cardinality(CoreCommands))

RECURSIVE Walk(_, _, _, _)
\* reads a log with the stack of open dispatches: whether every dispatch
\* returns before the one around it, the deepest nesting, the re-dispatches made
Walk(log, stack, depth, edges) ==
  IF log = <<>> THEN [ok |-> stack = <<>>, depth |-> depth, edges |-> edges]
  ELSE IF Head(log).op = "exec"
    THEN Walk(Tail(log), Append(stack, Head(log).arg),
              Max(depth, Len(stack) + 1),
              IF stack = <<>> THEN edges
              ELSE edges \cup {<<stack[Len(stack)], Head(log).arg>>})
  ELSE IF Head(log).op = "return"
    THEN IF stack # <<>> /\ stack[Len(stack)] = Head(log).arg
           THEN Walk(Tail(log), SubSeq(stack, 1, Len(stack) - 1), depth, edges)
           ELSE [ok |-> FALSE, depth |-> depth, edges |-> edges]
  ELSE IF stack = <<>> THEN [ok |-> FALSE, depth |-> depth, edges |-> edges]
  ELSE Walk(Tail(log), stack, depth, edges)

Nesting == Walk(last.log, <<>>, 0, {})

\* C17: with the core listeners alone, the re-dispatch graph has no cycle and
\* a top-level dispatch makes its nested dispatches along that graph, each
\* returning before the one around it, never deeper than 3 and no command name
\* twice.
C17_RedispatchBounded ==
  /\ Acyclic
  /\ last.cmd \in CoreCommands =>
       /\ Nesting.ok
       /\ Nesting.depth >= 1
       /\ Nesting.depth <= 3
       /\ Nesting.edges \subseteq RedispatchGraph
       /\ \A c \in CoreCommands : Count("exec", c) <= 1
       /\ Count("exec", last.cmd) = 1
       /\ Head(last.log) = [op |-> "exec", arg |-> last.cmd]
       /\ last.log[Len(last.log)] = [op |-> "return", arg |-> last.cmd]

C17_Witness ==
  /\ last.cmd = "keyTab"
  /\ Nesting.ok
  /\ Nesting.depth = 3
  /\ Nesting.edges = {<<"keyTab", "indentContent">>, <<"indentContent", "insertText">>}

\* the editor after an outdentContent dispatched from the present state
Outdented == execCommand(Start, "outdentContent", NoPayload).s

C19_InitializationKeepsContent ==
  last.cmd = "registerRichText" =>
    /\ (\/ last.payload.arg = "null"
        \/ last.payload.arg = "undefined" /\ pre.nodes[Root].children # <<>>) =>
         /\ nodes = pre.nodes
         /\ selection = pre.sel
         /\ nextKey = pre.nextKey
         /\ activeElement = pre.active
    /\ CountOp("createParagraphNode") =
         (IF last.payload.arg = "undefined" /\ pre.nodes[Root].children = <<>>
            THEN 1 ELSE 0)
    /\ {CoreCommandList[i] : i \in 1..Len(CoreCommandList)} = CoreCommands
    /\ Len(CoreCommandList) = Cardinality(CoreCommands)
    /\ Len(CoreCommandList) = 24
    /\ \A c \in CoreCommands :
         /\ Count("registerCommandListener", c) = 1
         /\ FirstIndex("registerCommandListener", c)
              < FirstIndex("initializeEditor", last.payload.arg)
    /\ Count("initializeEditor", last.payload.arg) = 1
    /\ \A i \in 1..Len(last.log) :
         last.log[i].op = "createParagraphNode" =>
           FirstIndex("initializeEditor", last.payload.arg) < i

C19_Witness ==
  /\ last.cmd = "registerRichText"
  /\ last.payload.arg = "undefined"
  /\ pre.nodes[Root].children = <<2, 6>>
  /\ IsRangeSelection(pre.sel)
  /\ nodes = pre.nodes
  /\ selection = pre.sel
  /\ FirstIndex("initializeEditor", "undefined") = 25

\* C20: the copy, cut and paste listeners return true exactly under a Range or
\* Grid selection; under a NodeSet selection or none they return false, write
\* no clipboard slot, do not suppress the default handling and leave the
\* document alone; under a Grid selection cut and paste are handled and change
\* no document content.
C20_ClipboardGate ==
  last.cmd \in {"copy", "cut", "paste"} =>
    /\ last.ret = (pre.sel.kind \in {"range", "grid"})
    /\ pre.sel.kind \in {"node", "none"} =>
         /\ clipboard = EmptyClip
         /\ CountOp("setData") = 0
         /\ ~last.prevented
         /\ CountOp("preventDefault") = 0
         /\ nodes = pre.nodes
         /\ selection = pre.sel
         /\ nextKey = pre.nextKey
    /\ (IsGridSelection(pre.sel) /\ last.cmd \in {"cut", "paste"}) =>
         /\ last.ret = TRUE
         /\ last.prevented
         /\ nodes = pre.nodes
         /\ selection = pre.sel
         /\ CountOp("removeText") = 0
         /\ CountOp("insertDataTransfer") = 0

C20_Witness ==
  /\ last.cmd = "paste"
  /\ IsGridSelection(pre.sel)
  /\ last.payload.hasData
  /\ last.ret
  /\ last.prevented
  /\ nodes = pre.nodes

====
